---- MODULE Spec2Model ----
(***************************************************************************)
(* A model of maxplotlib's TikzFigure (src/src/maxplotlib/subfigure/       *)
(* tikz_figure.py): the Node and Path entities, the figure's node list,    *)
(* path list, layer buckets and node counter, and the operations add_node, *)
(* add_path, generate_tikz, compile_pdf and plot_matplotlib; of LinePlot's  *)
(* add_line and add_node (subfigure/line_plot.py); and of Canvas's subplot  *)
(* matrix (canvas/canvas.py).  The state is one TikzFigure, one LinePlot    *)
(* and one Canvas.                                                          *)
(*                                                                         *)
(* Python values are encoded as follows.                                   *)
(*   - an optional string (None or a str) is a sequence: <<>> is None and  *)
(*     <<s>> is the string s;                                              *)
(*   - a dict (kwargs, the layers dict) is the sequence of its entries in  *)
(*     insertion order, which is the order Python iterates a dict in;      *)
(*   - an object reference held in a layer bucket is [kind, idx]: the      *)
(*     idx-th element of nodes (kind "Node") or of paths (kind "Path");    *)
(*     both lists are append-only, so the index is the object's identity;  *)
(*   - a raised exception is the name of its class in last.exc ("" when    *)
(*     the call returned normally).                                        *)
(***************************************************************************)
EXTENDS Integers, Sequences, FiniteSets, TLC

VARIABLES
    _caption,       \* TikzFigure._caption: optional string
    _description,   \* TikzFigure._description: optional string
    _label,         \* TikzFigure._label: optional string
    _grid,          \* TikzFigure._grid: BOOLEAN
    nodes,          \* TikzFigure.nodes: sequence of Node records
    paths,          \* TikzFigure.paths: sequence of Path records
    layers,         \* TikzFigure.layers: sequence of [key, items] in insertion order
    _node_counter,  \* TikzFigure._node_counter
    history,        \* the arguments of the calls that added or stored something and returned, in call order
    last,           \* the last call: [op, exc]
    args,           \* the arguments of the last call
    returned,       \* the entity the last call returned ([kind, idx]; idx 0: none)
    tikz_script,    \* the string the last call returned (generate_tikz), "" otherwise
    ax,             \* what the last call drew on its matplotlib axis (plot_matplotlib)
    tempdirs,       \* the temporary directories created so far: [exists, files]
    disk,           \* the files outside the temporary directories: set of [path, from]
    subprocess_runs,\* the subprocess.run calls the last call made
    stdout,         \* what the last call printed
    line_plot,      \* the LinePlot: [line_data, layered_line_data, nodes, paths, _node_counter]
    canvas          \* the Canvas: [_nrows, _ncols, _figsize, _caption, _description,
                    \* _label, _dpi, _subplot_matrix, subplots, line_plots]

figure == <<nodes, paths, layers, _node_counter>>
meta == <<_caption, _description, _label, _grid>>
env == <<tempdirs, disk>>
objects == <<line_plot, canvas>>
vars == <<_caption, _description, _label, _grid, nodes, paths, layers,
          _node_counter, history, last, args, returned, tikz_script, ax,
          tempdirs, disk, subprocess_runs, stdout, line_plot, canvas>>

----------------------------------------------------------------------------
(* Bounds of the model and the input sets the calls draw from.              *)

MaxItems == 3        \* entities (nodes and paths) a figure is grown to
MaxPathLen == 2      \* length of the nodes argument of add_path
MaxCyclePaths == 1   \* SpecCycle: paths added to the figure
MaxCyclePathLen == 3 \* SpecCycle: length of the nodes argument of add_path

None == <<>>
Some(v) == <<v>>

LayerArgs == {0, 1, 2}

----------------------------------------------------------------------------
(* Python helpers.                                                          *)

\* bool(v) of an optional string: None and "" are falsy.
Truthy(v) == v # None /\ v[1] # ""

\* sep.join(strs)
RECURSIVE Join(_, _)
Join(strs, sep) ==
    IF strs = <<>> THEN ""
    ELSE IF Len(strs) = 1 THEN strs[1]
    ELSE strs[1] \o sep \o Join(Tail(strs), sep)

\* s.replace('_', ' ')
RECURSIVE ReplaceUnderscore(_)
ReplaceUnderscore(s) ==
    IF Len(s) = 0 THEN ""
    ELSE (IF SubSeq(s, 1, 1) = "_" THEN " " ELSE SubSeq(s, 1, 1))
         \o ReplaceUnderscore(SubSeq(s, 2, Len(s)))

\* ', '.join(f"{k.replace('_', ' ')}={v}" for k, v in options.items())
FormatOptions(options) ==
    Join([i \in 1..Len(options) |->
              ReplaceUnderscore(options[i][1]) \o "=" \o options[i][2]], ", ")

----------------------------------------------------------------------------
(* Node and Path.                                                           *)

\* Node.__init__(x, y, label, content, layer, **kwargs)
Node(x, y, label, content, layer, options) ==
    [x |-> x, y |-> y, label |-> label, content |-> content,
     layer |-> layer, options |-> options]

\* Node.to_tikz
Node_to_tikz(node) ==
    LET joined == FormatOptions(node.options)
        options == IF joined # "" THEN "[" \o joined \o "]" ELSE joined
    IN  "    \\node" \o options \o " (" \o node.label \o ") at ("
        \o ToString(node.x) \o ", " \o ToString(node.y) \o ") {"
        \o node.content \o "};\n"

\* Path.__init__(nodes, path_actions, cycle, layer, **kwargs)
Path(path_nodes, path_actions, cycle, layer, options) ==
    [nodes |-> path_nodes, path_actions |-> path_actions, cycle |-> cycle,
     layer |-> layer, options |-> options]

\* CycleSuffix with the closing segment left out.
CycleSuffix_missing == ""

\* The closing segment Path.to_tikz appends to a cyclic path.
CycleSuffix == " -- cycle"

\* Path.to_tikz
Path_to_tikz(path) ==
    LET joined == FormatOptions(path.options)
        withActions == IF Len(path.path_actions) > 0
                       THEN Join(path.path_actions, ", ") \o ", " \o joined
                       ELSE joined
        options == IF withActions # "" THEN "[" \o withActions \o "]"
                   ELSE withActions
        joinedNodes == Join([i \in 1..Len(path.nodes) |->
                                 "(" \o path.nodes[i].str \o ".center)"], " -- ")
        path_str == IF path.cycle THEN joinedNodes \o CycleSuffix ELSE joinedNodes
    IN  "    \\draw" \o options \o " " \o path_str \o ";\n"

----------------------------------------------------------------------------
(* TikzFigure: construction, add_node, add_path.                            *)

NoRef == [kind |-> "None", idx |-> 0]
NoAxes == [lines |-> <<>>, patches |-> <<>>, xlim |-> <<>>, ylim |-> <<>>]

\* TikzFigure.__init__(caption=, description=, label=, grid=)
TikzFigure(caption, description, label, grid) ==
    /\ _caption = caption
    /\ _description = description
    /\ _label = label
    /\ _grid = grid
    /\ nodes = <<>>
    /\ paths = <<>>
    /\ layers = <<>>
    /\ _node_counter = 0
    /\ history = <<>>
    /\ last = [op |-> "__init__", exc |-> ""]
    /\ args = [caption |-> caption, description |-> description,
               label |-> label, grid |-> grid]
    /\ returned = NoRef
    /\ tikz_script = ""
    /\ ax = NoAxes
    /\ tempdirs = <<>>
    /\ disk = {}
    /\ subprocess_runs = <<>>
    /\ stdout = <<>>

\* The layer a Node or a Path gets when its constructor is not passed one.
DefaultLayer == 0

\* AutoLabel with the counter incremented before it is read.
AutoLabel_preincrement(counter) == "node" \o ToString(counter + 1)

\* f"node{self._node_counter}"
AutoLabel(counter) == "node" \o ToString(counter)

\* BucketAppend overwriting the bucket: self.layers[layer] = [item] always.
BucketAppend_replace(ls, key, item) ==
    IF \E i \in DOMAIN ls : ls[i].key = key
    THEN [i \in DOMAIN ls |->
              IF ls[i].key = key
              THEN [ls[i] EXCEPT !.items = <<item>>]
              ELSE ls[i]]
    ELSE Append(ls, [key |-> key, items |-> <<item>>])

\* BucketAppend putting the item at the front of its bucket.
BucketAppend_prepend(ls, key, item) ==
    IF \E i \in DOMAIN ls : ls[i].key = key
    THEN [i \in DOMAIN ls |->
              IF ls[i].key = key
              THEN [ls[i] EXCEPT !.items = <<item>> \o @]
              ELSE ls[i]]
    ELSE Append(ls, [key |-> key, items |-> <<item>>])

\* if layer in self.layers: self.layers[layer].append(item)
\* else: self.layers[layer] = [item]
BucketAppend(ls, key, item) ==
    IF \E i \in DOMAIN ls : ls[i].key = key
    THEN [i \in DOMAIN ls |->
              IF ls[i].key = key
              THEN [ls[i] EXCEPT !.items = Append(@, item)]
              ELSE ls[i]]
    ELSE Append(ls, [key |-> key, items |-> <<item>>])

\* TikzFigure.add_node(x, y, label, content, layer, **kwargs)
add_node(x, y, label, content, layer, kwargs) ==
    LET given == IF label = None THEN AutoLabel(_node_counter) ELSE label[1]
        \* layer is a named parameter of add_node, so it is not in kwargs and
        \* the Node is built with its default layer
        node == Node(x, y, given, content, DefaultLayer, kwargs)
        ref == [kind |-> "Node", idx |-> Len(nodes) + 1]
        call == [x |-> x, y |-> y, label |-> label, content |-> content,
                 layer |-> layer, kwargs |-> kwargs]
    IN  /\ nodes' = Append(nodes, node)
        /\ layers' = BucketAppend(layers, layer, ref)
        /\ _node_counter' = _node_counter + 1
        /\ returned' = ref
        /\ history' = Append(history, [op |-> "add_node", args |-> call])
        /\ last' = [op |-> "add_node", exc |-> ""]
        /\ args' = call
        /\ tikz_script' = ""
        /\ ax' = NoAxes
        /\ subprocess_runs' = <<>>
        /\ stdout' = <<>>
        /\ UNCHANGED <<paths, meta, env, objects>>

\* IsList accepting any sequence type.
IsList_anyIterable(nodes_arg) == nodes_arg.type \in {"list", "tuple"}

\* isinstance(nodes, list)
IsList(nodes_arg) == nodes_arg.type = "list"

\* An element of the nodes argument of add_path: a Node of this figure, a str,
\* or a value of another type (an int).
NodeElem(i) == [kind |-> "Node", idx |-> i, str |-> ""]
StrElem(s) == [kind |-> "str", idx |-> 0, str |-> s]
IntElem == [kind |-> "int", idx |-> 0, str |-> "7"]

\* node.label if isinstance(node, Node) else node if isinstance(node, str)
\* else ValueError(f"Invalid node type: {type(node)}")
\* The ValueError is built, not raised: it becomes the element.
ConvertElem(e) ==
    IF e.kind = "Node" THEN [kind |-> "str", str |-> nodes[e.idx].label]
    ELSE IF e.kind = "str" THEN [kind |-> "str", str |-> e.str]
    ELSE [kind |-> "ValueError",
          str |-> "Invalid node type: <class '" \o e.kind \o "'>"]

\* TikzFigure.add_path(nodes, layer, **kwargs); kwargs holds path_actions and
\* cycle (Path.__init__'s named parameters) and the remaining style options.
add_path(nodes_arg, layer, kwargs) ==
    LET call == [nodes |-> nodes_arg, layer |-> layer, kwargs |-> kwargs]
    IN  IF ~IsList(nodes_arg)
        THEN \* raise ValueError("nodes parameter must be a list of node names.")
             /\ last' = [op |-> "add_path", exc |-> "ValueError"]
             /\ args' = call
             /\ returned' = NoRef
             /\ tikz_script' = ""
             /\ ax' = NoAxes
             /\ subprocess_runs' = <<>>
             /\ stdout' = <<>>
             /\ UNCHANGED <<figure, history, meta, env, objects>>
        ELSE LET labels == [i \in 1..Len(nodes_arg.items) |->
                                ConvertElem(nodes_arg.items[i])]
                 path == Path(labels, kwargs.path_actions, kwargs.cycle,
                              DefaultLayer, kwargs.options)
                 ref == [kind |-> "Path", idx |-> Len(paths) + 1]
             IN  /\ paths' = Append(paths, path)
                 /\ layers' = BucketAppend(layers, layer, ref)
                 /\ returned' = ref
                 /\ history' = Append(history, [op |-> "add_path", args |-> call])
                 /\ last' = [op |-> "add_path", exc |-> ""]
                 /\ args' = call
                 /\ tikz_script' = ""
                 /\ ax' = NoAxes
                 /\ subprocess_runs' = <<>>
                 /\ stdout' = <<>>
                 /\ UNCHANGED <<nodes, _node_counter, meta, env, objects>>

----------------------------------------------------------------------------
(* TikzFigure.generate_tikz.                                                *)

\* ''.join(strs): the repeated tikz_script += ...
RECURSIVE Concat(_)
Concat(strs) == IF strs = <<>> THEN "" ELSE strs[1] \o Concat(Tail(strs))

\* item.to_tikz() of an element of a layer bucket
item_to_tikz(item) ==
    IF item.kind = "Node" THEN Node_to_tikz(nodes[item.idx])
    ELSE Path_to_tikz(paths[item.idx])

\* f"\n    % Layer {key}\n"
LayerHeader(key) == "\n    % Layer " \o ToString(key) \o "\n"

GridLine == "    \\draw[step=1cm, gray, very thin] (-10,-10) grid (10,10);\n"

\* The tikzpicture environment: the buckets in the order self.layers.items()
\* yields them (the order the keys were first used in), each bucket's items in
\* the order they were appended.
TikzPicture ==
    "\\begin{tikzpicture}\n"
    \o (IF _grid THEN GridLine ELSE "")
    \o Concat([i \in DOMAIN layers |->
                   LayerHeader(layers[i].key)
                   \o Concat([j \in DOMAIN layers[i].items |->
                                  item_to_tikz(layers[i].items[j])])])
    \o "\\end{tikzpicture}"

\* WrapsInFigure testing the caption alone.
WrapsInFigure_captionOnly == Truthy(_caption)

\* if self._caption or self._description or self._label
WrapsInFigure == Truthy(_caption) \/ Truthy(_description) \/ Truthy(_label)

CaptionClause(c) == "    \\caption{" \o c \o "}\n"
LabelClause(l) == "    \\label{" \o l \o "}\n"

\* The string generate_tikz returns in the current state.
GenerateTikz ==
    IF WrapsInFigure
    THEN "\\begin{figure}\n" \o TikzPicture \o "\n"
         \o (IF Truthy(_caption) THEN CaptionClause(_caption[1]) ELSE "")
         \o (IF Truthy(_label) THEN LabelClause(_label[1]) ELSE "")
         \o "\\end{figure}"
    ELSE TikzPicture

\* A generate_tikz that consumes the buckets while it emits them.
generate_tikz_draining ==
    /\ tikz_script' = GenerateTikz
    /\ layers' = <<>>
    /\ last' = [op |-> "generate_tikz", exc |-> ""]
    /\ args' = <<>>
    /\ returned' = NoRef
    /\ ax' = NoAxes
    /\ subprocess_runs' = <<>>
    /\ stdout' = <<>>
    /\ UNCHANGED <<nodes, paths, _node_counter, history, meta, env, objects>>

\* TikzFigure.generate_tikz()
generate_tikz ==
    /\ tikz_script' = GenerateTikz
    /\ last' = [op |-> "generate_tikz", exc |-> ""]
    /\ args' = <<>>
    /\ returned' = NoRef
    /\ ax' = NoAxes
    /\ subprocess_runs' = <<>>
    /\ stdout' = <<>>
    /\ UNCHANGED <<figure, history, meta, env, objects>>

----------------------------------------------------------------------------
(* TikzFigure.compile_pdf.  pdflatex and the file system are outside the    *)
(* repository: a run of pdflatex is the record of what subprocess.run and   *)
(* os.path.exists observe of it (whether the executable was found, its      *)
(* return code, its standard error, whether it wrote figure.pdf), and the   *)
(* file system is a single one whose directories are Directories.           *)

\* The directories that exist, as os.path.dirname names them ("" is the
\* current directory).
Directories == {"", "figures"}

\* os.path.dirname(path)
Dirname(path) ==
    LET slashes == {i \in 1..Len(path) : SubSeq(path, i, i) = "/"}
    IN  IF slashes = {} THEN ""
        ELSE SubSeq(path, 1, (CHOOSE i \in slashes : \A j \in slashes : j <= i) - 1)

\* The minimal LaTeX document around tikz_code
LatexDocument(tikz_code) ==
    "\\documentclass[border=10pt]{standalone}\n"
    \o "\\usepackage{tikz}\n"
    \o "\\begin{document}\n"
    \o tikz_code \o "\n"
    \o "\\end{document}"

\* A run of pdflatex, as the call observes it.
PdflatexRun(found, returncode, stderr, pdf) ==
    [found |-> found, returncode |-> returncode, stderr |-> stderr, pdf |-> pdf]

\* The exception subprocess.run(..., check=True) raises, "" when it returns:
\* FileNotFoundError when the executable is missing, CalledProcessError when
\* the process exits non-zero.
subprocess_run(pdflatex) ==
    IF ~pdflatex.found THEN "FileNotFoundError"
    ELSE IF pdflatex.returncode # 0 THEN "CalledProcessError"
    ELSE ""

\* TemporaryDirectory_exit keeping the directory when the block raises.
TemporaryDirectory_exit_onReturnOnly(dir, exc) ==
    IF exc = "" THEN [exists |-> FALSE, files |-> {}] ELSE dir

\* Leaving the block of "with tempfile.TemporaryDirectory() as tempdir": the
\* directory and its files are removed, whether the block returns or raises.
TemporaryDirectory_exit(dir, exc) == [exists |-> FALSE, files |-> {}]

\* os_rename leaving a file that was at the path in place beside the new one.
os_rename_keepOld(files, path, from) == files \cup {[path |-> path, from |-> from]}

\* os.rename(pdf_output, filename), the destination's directory existing: the
\* file of temporary directory from becomes the file at path, replacing the one
\* that was there.
os_rename(files, path, from) ==
    {f \in files : f.path # path} \cup {[path |-> path, from |-> from]}

CompileErrorMessage == "An error occurred while compiling the LaTeX document:"
SuccessMessage(filename) ==
    "PDF successfully compiled and saved as '" \o filename \o "'."
NoPdfMessage == "PDF compilation failed. Please check the LaTeX log for details."

\* TikzFigure.compile_pdf(filename), pdflatex being the run the call gets
compile_pdf(filename, pdflatex) ==
    LET latex_document == LatexDocument(GenerateTikz)
        tempdir == Len(tempdirs) + 1
        raised == subprocess_run(pdflatex)
        \* the directory after the write of figure.tex and the run
        compiled == [exists |-> TRUE,
                     files |-> {"figure.tex"}
                               \cup (IF pdflatex.found /\ pdflatex.pdf
                                     THEN {"figure.pdf"} ELSE {})]
        \* os.path.exists(pdf_output) is reached and true
        moves == raised = "" /\ "figure.pdf" \in compiled.files
        \* os.rename raises FileNotFoundError
        renameFails == moves /\ Dirname(filename) \notin Directories
        exc == IF raised = "FileNotFoundError" \/ renameFails
               THEN "FileNotFoundError" ELSE ""
        atExit == IF moves /\ ~renameFails
                  THEN [compiled EXCEPT !.files = @ \ {"figure.pdf"}]
                  ELSE compiled
    IN  /\ tempdirs' = Append(tempdirs, TemporaryDirectory_exit(atExit, exc))
        /\ subprocess_runs' =
               <<[cmd |-> <<"pdflatex", "-interaction=nonstopmode", "figure.tex">>,
                  cwd |-> tempdir, tex |-> latex_document, run |-> pdflatex]>>
        /\ disk' = IF moves /\ ~renameFails
                   THEN os_rename(disk, filename, tempdir) ELSE disk
        /\ stdout' = IF raised = "CalledProcessError"
                     THEN <<CompileErrorMessage, pdflatex.stderr>>
                     ELSE IF raised # "" \/ renameFails THEN <<>>
                     ELSE IF moves THEN <<SuccessMessage(filename)>>
                     ELSE <<NoPdfMessage>>
        /\ last' = [op |-> "compile_pdf", exc |-> exc]
        /\ args' = [filename |-> filename]
        /\ returned' = NoRef
        /\ tikz_script' = ""
        /\ ax' = NoAxes
        /\ UNCHANGED <<figure, history, meta, objects>>

----------------------------------------------------------------------------
(* TikzFigure.plot_matplotlib.  Color, Linestyle and the matplotlib axis    *)
(* are outside the repository's sources: the colour, width and style parse  *)
(* of each path and node is taken to succeed, and ax records the            *)
(* coordinates handed to ax.plot and to the patches, and the limits set.    *)

\* FirstMatch yielding the node added latest under the label.
FirstMatch_latest(e) ==
    IF e.kind = "str" /\ \E i \in DOMAIN nodes : nodes[i].label = e.str
    THEN CHOOSE i \in DOMAIN nodes :
             /\ nodes[i].label = e.str
             /\ \A j \in DOMAIN nodes : j > i => nodes[j].label # e.str
    ELSE 0

\* next(node for node in self.nodes if node.label == label): the index of the
\* node it yields, 0 when the generator is empty (next raises StopIteration).
\* A ValueError element equals no label.
FirstMatch(e) ==
    IF e.kind = "str" /\ \E i \in DOMAIN nodes : nodes[i].label = e.str
    THEN CHOOSE i \in DOMAIN nodes :
             /\ nodes[i].label = e.str
             /\ \A j \in 1..(i - 1) : nodes[j].label # e.str
    ELSE 0

\* Both list comprehensions of a path complete.
Resolves(path) == \A i \in DOMAIN path.nodes : FirstMatch(path.nodes[i]) # 0

\* x_coords and y_coords of a path whose labels all resolve
Coords(path) ==
    [x |-> [i \in DOMAIN path.nodes |-> nodes[FirstMatch(path.nodes[i])].x],
     y |-> [i \in DOMAIN path.nodes |-> nodes[FirstMatch(path.nodes[i])].y]]

\* The number of paths drawn before the loop over self.paths ends or raises.
PathsDrawn ==
    IF \A p \in DOMAIN paths : Resolves(paths[p]) THEN Len(paths)
    ELSE (CHOOSE p \in DOMAIN paths :
              /\ ~Resolves(paths[p])
              /\ \A q \in 1..(p - 1) : Resolves(paths[q])) - 1

Min(S) == CHOOSE m \in S : \A n \in S : m <= n
Max(S) == CHOOSE m \in S : \A n \in S : m >= n

\* padding = 1
Padding == 1

\* TikzFigure.plot_matplotlib(ax), on a fresh axis
plot_matplotlib ==
    LET drawn == [p \in 1..PathsDrawn |-> Coords(paths[p])]
        patches == [i \in DOMAIN nodes |-> <<nodes[i].x, nodes[i].y>>]
        all_x == {nodes[i].x : i \in DOMAIN nodes}
        all_y == {nodes[i].y : i \in DOMAIN nodes}
    IN  /\ IF PathsDrawn < Len(paths)
           THEN \* next() raised in a list comprehension of path PathsDrawn + 1
                /\ last' = [op |-> "plot_matplotlib", exc |-> "StopIteration"]
                /\ ax' = [NoAxes EXCEPT !.lines = drawn]
           ELSE IF nodes = <<>>
           THEN \* min(all_x) of an empty list
                /\ last' = [op |-> "plot_matplotlib", exc |-> "ValueError"]
                /\ ax' = [NoAxes EXCEPT !.lines = drawn]
           ELSE /\ last' = [op |-> "plot_matplotlib", exc |-> ""]
                /\ ax' = [lines |-> drawn, patches |-> patches,
                          xlim |-> <<Min(all_x) - Padding, Max(all_x) + Padding>>,
                          ylim |-> <<Min(all_y) - Padding, Max(all_y) + Padding>>]
        /\ args' = <<>>
        /\ returned' = NoRef
        /\ tikz_script' = ""
        /\ subprocess_runs' = <<>>
        /\ stdout' = <<>>
        /\ UNCHANGED <<figure, history, meta, env, objects>>

----------------------------------------------------------------------------
(* LinePlot (subfigure/line_plot.py): construction, add_line, the layers    *)
(* property and add_node.  The x and y data of a line are kept as given.    *)

\* LinePlot.__init__
LinePlot ==
    line_plot = [line_data |-> <<>>, layered_line_data |-> <<>>,
                 nodes |-> <<>>, paths |-> <<>>, _node_counter |-> 0]

\* The calls that leave the TikzFigure, its files and its output alone.
OutsideFigure ==
    /\ tikz_script' = ""
    /\ ax' = NoAxes
    /\ subprocess_runs' = <<>>
    /\ stdout' = <<>>
    /\ UNCHANGED <<figure, meta, env>>

\* LinePlot.add_line(x_data, y_data, layer, plot_type, **kwargs)
LinePlot_add_line(x_data, y_data, layer, plot_type, kwargs) ==
    LET ld == [x |-> x_data, y |-> y_data, layer |-> layer,
               plot_type |-> plot_type, kwargs |-> kwargs]
    IN  /\ line_plot' = [line_plot EXCEPT
                             !.line_data = Append(@, ld),
                             !.layered_line_data = BucketAppend(@, layer, ld)]
        /\ last' = [op |-> "LinePlot.add_line", exc |-> ""]
        /\ args' = ld
        /\ returned' = NoRef
        /\ OutsideFigure
        /\ UNCHANGED <<history, canvas>>

\* The layers property: the list of the layer names of layered_line_data,
\* built anew on every read.
LinePlot_layers == [i \in DOMAIN line_plot.layered_line_data |->
                        line_plot.layered_line_data[i].key]

\* list[i] of a Python list: the position (from 1) the index i selects,
\* counting from the end when i is negative; 0 when list[i] raises IndexError.
ListIndex(list, i) ==
    IF 0 <= i /\ i < Len(list) THEN i + 1
    ELSE IF i < 0 /\ -Len(list) <= i THEN Len(list) + i + 1
    ELSE 0

\* LinePlot.add_node(x, y, label, content, layer, **kwargs).  After the append
\* to nodes the method reads self.layers, a list of layer names:
\*   - layer in the list: self.layers[layer] indexes the list by the layer
\*     number, raising IndexError, or yields a layer name, whose .add raises
\*     AttributeError;
\*   - layer not in the list: Tikzlayer, a name defined nowhere, raises
\*     NameError.
\* The increment of _node_counter and the return are not reached.
LinePlot_add_node(x, y, label, content, layer, kwargs) ==
    LET given == IF label = None
                 THEN "node" \o ToString(line_plot._node_counter) ELSE label[1]
        node == [x |-> x, y |-> y, label |-> given, content |-> content,
                 layer |-> layer, options |-> kwargs]
        exc == IF \E i \in DOMAIN LinePlot_layers : LinePlot_layers[i] = layer
               THEN (IF ListIndex(LinePlot_layers, layer) = 0
                     THEN "IndexError" ELSE "AttributeError")
               ELSE "NameError"
    IN  /\ line_plot' = [line_plot EXCEPT !.nodes = Append(@, node)]
        /\ last' = [op |-> "LinePlot.add_node", exc |-> exc]
        /\ args' = [x |-> x, y |-> y, label |-> label, content |-> content,
                    layer |-> layer, kwargs |-> kwargs]
        /\ returned' = NoRef
        /\ OutsideFigure
        /\ UNCHANGED <<history, canvas>>

----------------------------------------------------------------------------
(* Canvas (canvas/canvas.py): construction, add_subplot, the properties and *)
(* their setters, __getitem__ and __setitem__.  A cell of the subplot       *)
(* matrix holds None (NoRef), a LinePlot add_subplot constructed            *)
(* ([kind |-> "LinePlot", idx]) or a value the caller stored.  caption,     *)
(* description, label and figsize are optional values (None or Some(v)).    *)

\* kwargs.get('dpi', 300)
DefaultDpi == 300

\* Canvas.__init__(nrows=, ncols=, figsize=, caption=, description=, label=,
\* dpi=)
Canvas_init(nrows, ncols, figsize, caption, description, label, dpi) ==
    canvas = [_nrows |-> nrows, _ncols |-> ncols,
              _figsize |-> figsize, _caption |-> caption,
              _description |-> description, _label |-> label, _dpi |-> dpi,
              _subplot_matrix |-> [r \in 1..nrows |-> [c \in 1..ncols |-> NoRef]],
              subplots |-> <<>>,
              line_plots |-> 0]

\* Canvas.__init__(nrows=, ncols=): the other arguments at their defaults
Canvas(nrows, ncols) == Canvas_init(nrows, ncols, None, None, None, None, DefaultDpi)

\* A key of the subplots dict: the tuple (row, col) or a label.
CellKey(row, col) == [kind |-> "cell", row |-> row, col |-> col, label |-> ""]
LabelKey(label) == [kind |-> "label", row |-> 0, col |-> 0, label |-> label]

\* d[key] = value
DictSet(d, key, value) ==
    IF \E i \in DOMAIN d : d[i].key = key
    THEN [i \in DOMAIN d |-> IF d[i].key = key THEN [d[i] EXCEPT !.value = value]
                             ELSE d[i]]
    ELSE Append(d, [key |-> key, value |-> value])

\* A Canvas call that raised exc: nothing is stored, nothing returned.
CanvasRaises(op, call, exc) ==
    /\ last' = [op |-> op, exc |-> exc]
    /\ args' = call
    /\ returned' = NoRef
    /\ UNCHANGED <<history, canvas>>

\* Canvas.add_subplot(row=, col=, label=); row and col are None or an index.
Canvas_add_subplot(row, col, label) ==
    LET m == canvas._subplot_matrix
        call == [row |-> row, col |-> col, label |-> label]
        op == "Canvas.add_subplot"
        \* the rows the search reads before it stops: those that exist
        rowHits == {i \in 0..(canvas._nrows - 1) :
                       i < Len(m) /\ \E c \in DOMAIN m[i + 1] : m[i + 1][c] = NoRef}
        theRow == IF row # None THEN row[1]
                  ELSE IF rowHits # {} THEN Min(rowHits) ELSE 0
        r == ListIndex(m, theRow)
        colHits == {j \in 0..(canvas._ncols - 1) :
                       r # 0 /\ j < Len(m[r]) /\ m[r][j + 1] = NoRef}
        theCol == IF col # None THEN col[1]
                  ELSE IF colHits # {} THEN Min(colHits) ELSE 0
        c == IF r = 0 THEN 0 ELSE ListIndex(m[r], theCol)
        line_plot_ref == [kind |-> "LinePlot", idx |-> canvas.line_plots + 1]
        key == IF label = None THEN CellKey(theRow, theCol) ELSE LabelKey(label[1])
    IN  /\ IF row = None /\ rowHits = {}
           THEN \* self._subplot_matrix[irow] of a row the matrix lacks, or the
                \* assert after the loop
                CanvasRaises(op, call, IF canvas._nrows > Len(m) THEN "IndexError"
                                       ELSE "AssertionError")
           ELSE IF col = None /\ canvas._ncols > 0 /\ r = 0
           THEN CanvasRaises(op, call, "IndexError")
           ELSE IF col = None /\ colHits = {}
           THEN CanvasRaises(op, call, IF canvas._ncols > Len(m[r]) THEN "IndexError"
                                       ELSE "AssertionError")
           ELSE IF r = 0 \/ c = 0
           THEN \* the LinePlot is constructed, the store into the matrix raises
                /\ canvas' = [canvas EXCEPT !.line_plots = @ + 1]
                /\ last' = [op |-> op, exc |-> "IndexError"]
                /\ args' = call
                /\ returned' = NoRef
                /\ UNCHANGED history
           ELSE /\ canvas' = [canvas EXCEPT
                                  !._subplot_matrix[r][c] = line_plot_ref,
                                  !.subplots = DictSet(@, key, line_plot_ref),
                                  !.line_plots = @ + 1]
                /\ last' = [op |-> op, exc |-> ""]
                /\ args' = call
                /\ returned' = line_plot_ref
                /\ history' = Append(history,
                                     [op |-> op,
                                      args |-> [row |-> theRow, col |-> theCol,
                                                value |-> line_plot_ref]])
        /\ OutsideFigure
        /\ UNCHANGED line_plot

\* canvas.nrows = value
Canvas_nrows_setter(value) ==
    /\ canvas' = [canvas EXCEPT !._nrows = value]
    /\ last' = [op |-> "Canvas.nrows", exc |-> ""]
    /\ args' = [value |-> value]
    /\ returned' = NoRef
    /\ OutsideFigure
    /\ UNCHANGED <<history, line_plot>>

\* canvas.ncols = value
Canvas_ncols_setter(value) ==
    /\ canvas' = [canvas EXCEPT !._ncols = value]
    /\ last' = [op |-> "Canvas.ncols", exc |-> ""]
    /\ args' = [value |-> value]
    /\ returned' = NoRef
    /\ OutsideFigure
    /\ UNCHANGED <<history, line_plot>>

\* A setter that stores value in field: the canvas after the assignment.
\* (Canvas_nrows_setter and Canvas_ncols_setter above are the same, written
\* out.)
Canvas_setter(name, after, value) ==
    /\ canvas' = after
    /\ last' = [op |-> name, exc |-> ""]
    /\ args' = [value |-> value]
    /\ returned' = NoRef
    /\ OutsideFigure
    /\ UNCHANGED <<history, line_plot>>

\* canvas.dpi = value
Canvas_dpi_setter(value) ==
    Canvas_setter("Canvas.dpi", [canvas EXCEPT !._dpi = value], value)

\* canvas.caption = value
Canvas_caption_setter(value) ==
    Canvas_setter("Canvas.caption", [canvas EXCEPT !._caption = value], value)

\* canvas.description = value
Canvas_description_setter(value) ==
    Canvas_setter("Canvas.description", [canvas EXCEPT !._description = value], value)

\* canvas.label = value
Canvas_label_setter(value) ==
    Canvas_setter("Canvas.label", [canvas EXCEPT !._label = value], value)

\* canvas.figsize = value
Canvas_figsize_setter(value) ==
    Canvas_setter("Canvas.figsize", [canvas EXCEPT !._figsize = value], value)

\* What reading a property of the canvas cv returns.  The class body first
\* defines dpi as a property returning self._dpi, then rebinds the name with
\* "@nrows.setter def dpi": property.setter returns a copy of the nrows
\* property with the new setter, so the dpi the class ends up with reads
\* through the getter of nrows.
Canvas_dpi(cv) == cv._nrows
Canvas_nrows(cv) == cv._nrows
Canvas_ncols(cv) == cv._ncols
Canvas_caption(cv) == cv._caption
Canvas_description(cv) == cv._description
Canvas_label(cv) == cv._label
Canvas_figsize(cv) == cv._figsize

\* if row >= self.nrows or col >= self.ncols: raise IndexError
OutOfRange(row, col) == row >= canvas._nrows \/ col >= canvas._ncols

\* Canvas.__getitem__((row, col))
Canvas_getitem(row, col) ==
    LET m == canvas._subplot_matrix
        r == ListIndex(m, row)
        c == IF r = 0 THEN 0 ELSE ListIndex(m[r], col)
        call == [row |-> row, col |-> col]
    IN  /\ IF OutOfRange(row, col) \/ r = 0 \/ c = 0
           THEN CanvasRaises("Canvas.__getitem__", call, "IndexError")
           ELSE /\ last' = [op |-> "Canvas.__getitem__", exc |-> ""]
                /\ args' = call
                /\ returned' = m[r][c]
                /\ UNCHANGED <<history, canvas>>
        /\ OutsideFigure
        /\ UNCHANGED line_plot

\* Canvas.__setitem__((row, col), value)
Canvas_setitem(row, col, value) ==
    LET m == canvas._subplot_matrix
        r == ListIndex(m, row)
        c == IF r = 0 THEN 0 ELSE ListIndex(m[r], col)
        call == [row |-> row, col |-> col, value |-> value]
    IN  /\ IF OutOfRange(row, col) \/ r = 0 \/ c = 0
           THEN CanvasRaises("Canvas.__setitem__", call, "IndexError")
           ELSE /\ canvas' = [canvas EXCEPT !._subplot_matrix[r][c] = value]
                /\ last' = [op |-> "Canvas.__setitem__", exc |-> ""]
                /\ args' = call
                /\ returned' = NoRef
                /\ history' = Append(history, [op |-> "Canvas.__setitem__",
                                               args |-> call])
        /\ OutsideFigure
        /\ UNCHANGED line_plot

----------------------------------------------------------------------------
(* Specifications.  Each is a TikzFigure driven by calls whose arguments    *)
(* are drawn from the sets named in its next-state relation.                *)

ItemCount == Len(nodes) + Len(paths)

\* The sequences over S of length at most n.
RECURSIVE SeqsUpTo(_, _)
SeqsUpTo(S, n) ==
    IF n = 0 THEN {<<>>}
    ELSE LET shorter == SeqsUpTo(S, n - 1)
         IN  shorter \cup {Append(q, e) : q \in {r \in shorter : Len(r) = n - 1}, e \in S}

NoKwargs == [path_actions |-> <<>>, cycle |-> FALSE, options |-> <<>>]
ListOf(items) == [type |-> "list", items |-> items]
TupleOf(items) == [type |-> "tuple", items |-> items]

Init == TikzFigure(None, None, None, FALSE) /\ LinePlot /\ Canvas(1, 1)

\* Spec: nodes with and without a label and paths, spread over the layers
\* 0..MaxLayer, and generate_tikz.
LabelArgs == {None, Some("A")}

AddNode ==
    /\ ItemCount < MaxItems
    /\ \E label \in LabelArgs, layer \in LayerArgs :
           add_node(0, 0, label, "", layer, <<>>)

AddPath ==
    /\ ItemCount < MaxItems
    /\ \E items \in SeqsUpTo({StrElem("A")}, MaxPathLen), layer \in LayerArgs :
           add_path(ListOf(items), layer, NoKwargs)

Next == AddNode \/ AddPath \/ generate_tikz

Spec == Init /\ [][Next]_vars

\* SpecPaths: nodes at two positions, with duplicate labels, and paths whose
\* elements are labels (of a node or of none), Node objects and values of
\* another type, given as a list or as a tuple; plot_matplotlib resolves them.
PointArgs == {<<0, 0>>, <<1, 2>>}

PathElems ==
    {StrElem("A")} \cup (IF nodes = <<>> THEN {} ELSE {NodeElem(Len(nodes))})

AddNodeP ==
    /\ ItemCount < MaxItems
    /\ \E point \in PointArgs, label \in LabelArgs :
           add_node(point[1], point[2], label, "", 0, <<>>)

AddPathP ==
    /\ ItemCount < MaxItems
    /\ \E items \in SeqsUpTo(PathElems, MaxPathLen) :
           add_path(ListOf(items), 0, NoKwargs)

AddPathInvalidElem ==
    /\ ItemCount < MaxItems
    /\ \E items \in {<<IntElem>>, <<StrElem("A"), IntElem>>} :
           add_path(ListOf(items), 0, NoKwargs)

AddPathNotList ==
    \E items \in {<<>>, <<StrElem("A")>>} : add_path(TupleOf(items), 0, NoKwargs)

NextPaths ==
    AddNodeP \/ AddPathP \/ AddPathInvalidElem \/ AddPathNotList \/ plot_matplotlib

SpecPaths == Init /\ [][NextPaths]_vars

\* SpecMeta: a figure constructed with every combination of caption,
\* description, label and grid, holding a node and paths, and generate_tikz.
CaptionArgs == {None, Some(""), Some("Fig")}
DescriptionArgs == {None, Some("a figure")}
FigureLabelArgs == {None, Some(""), Some("fig:a")}

InitMeta ==
    /\ \E caption \in CaptionArgs, description \in DescriptionArgs,
          label \in FigureLabelArgs, grid \in BOOLEAN :
           TikzFigure(caption, description, label, grid)
    /\ LinePlot
    /\ Canvas(1, 1)

AddNodeM ==
    /\ ItemCount < MaxItems
    /\ add_node(1, 2, Some("A"), "", 0, <<>>)

AddPathM ==
    /\ ItemCount < MaxItems
    /\ add_path(ListOf(<<StrElem("A")>>), 0, NoKwargs)

NextMeta == AddNodeM \/ AddPathM \/ generate_tikz

SpecMeta == InitMeta /\ [][NextMeta]_vars

\* SpecCycle: the nodes A, B, C added in that order, paths over the labels of
\* the nodes added so far, in any order and with repetitions, with and without
\* cycle, and generate_tikz.
CycleNodeLabels == <<"A", "B", "C">>

AddNodeC ==
    /\ Len(nodes) < Len(CycleNodeLabels)
    /\ add_node(Len(nodes), 0, Some(CycleNodeLabels[Len(nodes) + 1]), "", 0, <<>>)

AddPathC ==
    /\ Len(paths) < MaxCyclePaths
    /\ \E items \in SeqsUpTo({StrElem(nodes[i].label) : i \in DOMAIN nodes},
                             MaxCyclePathLen),
          cycle \in BOOLEAN :
           add_path(ListOf(items), 0, [NoKwargs EXCEPT !.cycle = cycle])

NextCycle == AddNodeC \/ AddPathC \/ generate_tikz

SpecCycle == Init /\ [][NextCycle]_vars

\* SpecCompile: a figure holding a node and paths is compiled, to a file in
\* the current directory, in an existing directory or in a missing one, with
\* pdflatex missing, failing (with or without a figure.pdf) or exiting zero
\* (with or without a figure.pdf).
MaxCompiles == 2     \* compile_pdf calls made on the figure

FilenameArgs == {"output.pdf", "figures/output.pdf", "missing/output.pdf"}

PdflatexRuns ==
    {PdflatexRun(FALSE, 0, "", FALSE)}
    \cup {PdflatexRun(TRUE, 1, "pdflatex: error", pdf) : pdf \in BOOLEAN}
    \cup {PdflatexRun(TRUE, 0, "", pdf) : pdf \in BOOLEAN}

CompilePdf ==
    /\ Len(tempdirs) < MaxCompiles
    /\ \E filename \in FilenameArgs, pdflatex \in PdflatexRuns :
           compile_pdf(filename, pdflatex)

NextCompile == AddNodeM \/ AddPathM \/ CompilePdf

SpecCompile == Init /\ [][NextCompile]_vars

\* SpecLinePlot: lines and nodes, with and without a label, added to the
\* LinePlot in any order and to any of the layers.
MaxLines == 2        \* add_line calls made on the LinePlot

AddLine ==
    /\ Len(line_plot.line_data) < MaxLines
    /\ \E layer \in LayerArgs :
           LinePlot_add_line(<<0, 1>>, <<0, 1>>, layer, "plot", <<>>)

AddNodeL ==
    /\ Len(line_plot.nodes) < MaxItems
    /\ \E label \in LabelArgs, layer \in LayerArgs :
           LinePlot_add_node(0, 0, label, "", layer, <<>>)

NextLinePlot == AddLine \/ AddNodeL

SpecLinePlot == Init /\ [][NextLinePlot]_vars

\* SpecCanvas: a canvas of one or two rows and columns; subplots are added at
\* the first free cell or at a given one, values are stored and read at
\* indices on both sides of the grid's edges, and nrows and ncols are set.
MaxStores == 2       \* stores that returned; LinePlots add_subplot constructed

CanvasSizes == {1, 2}
IndexArgs == {-1, 0, 1}
StoredValue == [kind |-> "str", idx |-> 1]

InitCanvas ==
    /\ TikzFigure(None, None, None, FALSE)
    /\ LinePlot
    /\ \E nrows \in CanvasSizes, ncols \in CanvasSizes : Canvas(nrows, ncols)

AddSubplot ==
    /\ Len(history) < MaxStores
    /\ canvas.line_plots < MaxStores
    /\ \E row \in {None, Some(0), Some(1)}, col \in {None, Some(0), Some(1)},
          label \in LabelArgs :
           Canvas_add_subplot(row, col, label)

SetNrows == \E value \in CanvasSizes : Canvas_nrows_setter(value)

SetNcols == \E value \in CanvasSizes : Canvas_ncols_setter(value)

GetItem == \E row \in IndexArgs, col \in IndexArgs : Canvas_getitem(row, col)

SetItem ==
    /\ Len(history) < MaxStores
    /\ \E row \in IndexArgs, col \in IndexArgs :
           Canvas_setitem(row, col, StoredValue)

NextCanvas == AddSubplot \/ SetNrows \/ SetNcols \/ GetItem \/ SetItem

SpecCanvas == InitCanvas /\ [][NextCanvas]_vars

\* SpecProperties: a canvas constructed with the default dpi or with a given
\* one; its properties are assigned in any order.
DpiArgs == {DefaultDpi, 150}
CanvasTextArgs == {None, Some("Fig")}
FigsizeArgs == {None, Some(<<10, 6>>)}

InitProperties ==
    /\ TikzFigure(None, None, None, FALSE)
    /\ LinePlot
    /\ \E dpi \in DpiArgs : Canvas_init(1, 1, None, None, None, None, dpi)

SetDpi == \E value \in DpiArgs : Canvas_dpi_setter(value)

SetCaption == \E value \in CanvasTextArgs : Canvas_caption_setter(value)

SetDescription == \E value \in CanvasTextArgs : Canvas_description_setter(value)

SetLabel == \E value \in CanvasTextArgs : Canvas_label_setter(value)

SetFigsize == \E value \in FigsizeArgs : Canvas_figsize_setter(value)

NextProperties ==
    SetDpi \/ SetNrows \/ SetNcols \/ SetCaption \/ SetDescription \/ SetLabel
    \/ SetFigsize

SpecProperties == InitProperties /\ [][NextProperties]_vars

\* SpecOptions: paths over the node A with no, one or two path actions and
\* with no, one or two style options, and generate_tikz.
MaxOptionPaths == 2  \* SpecOptions: paths added to the figure

PathActionArgs == {<<>>, <<"draw">>, <<"draw", "rounded corners">>}
OptionArgs == {<<>>, << <<"line_width", "2">> >>,
               << <<"color", "green">>, <<"line_width", "2">> >>}

AddPathO ==
    /\ Len(paths) < MaxOptionPaths
    /\ \E path_actions \in PathActionArgs, options \in OptionArgs :
           add_path(ListOf(<<StrElem("A")>>), 0,
                    [path_actions |-> path_actions, cycle |-> FALSE,
                     options |-> options])

NextOptions == AddNodeM \/ AddPathO \/ generate_tikz

SpecOptions == Init /\ [][NextOptions]_vars

----------------------------------------------------------------------------
(* The claims.                                                              *)

\* The position of the first occurrence of sub in s, 0 when there is none.
IndexOf(sub, s) ==
    LET at == {i \in 1..(Len(s) - Len(sub) + 1) : SubSeq(s, i, i + Len(sub) - 1) = sub}
    IN  IF at = {} THEN 0 ELSE CHOOSE i \in at : \A j \in at : i <= j

Contains(sub, s) == IndexOf(sub, s) # 0

StartsWith(prefix, s) ==
    Len(s) >= Len(prefix) /\ SubSeq(s, 1, Len(prefix)) = prefix

EndsWith(suffix, s) ==
    Len(s) >= Len(suffix) /\ SubSeq(s, Len(s) - Len(suffix) + 1, Len(s)) = suffix

\* The calls of op that returned, in call order.
CallsOf(op) == SelectSeq(history, LAMBDA h : h.op = op)

\* The position in history of the call that created the n-th node / p-th path.
CreatedAt(op, n) ==
    CHOOSE k \in DOMAIN history :
        /\ history[k].op = op
        /\ Cardinality({j \in 1..k : history[j].op = op}) = n

\* C1: generate_tikz emits the layers in ascending numeric order of their key,
\* whatever order the layers were first used in: of two layers in use, the one
\* with the smaller key has its "% Layer" block earlier in the output.
C1_LayersAscending ==
    last.op = "generate_tikz" =>
        LET used == {history[k].args.layer : k \in DOMAIN history}
        IN  \A a, b \in used :
                /\ Contains("% Layer " \o ToString(a) \o "\n", tikz_script)
                /\ a < b =>
                       IndexOf("% Layer " \o ToString(a) \o "\n", tikz_script)
                       < IndexOf("% Layer " \o ToString(b) \o "\n", tikz_script)

\* C2: when every add_node call so far omitted the label, the i-th call
\* (from 0) created the node labelled node{i}, whatever layers were passed, and
\* the call returned that node.
C2_AutoLabels ==
    LET calls == CallsOf("add_node")
    IN  (\A i \in DOMAIN calls : calls[i].args.label = None) =>
            /\ Len(nodes) = Len(calls)
            /\ \A i \in DOMAIN calls : nodes[i].label = "node" \o ToString(i - 1)
            /\ last.op = "add_node" =>
                   returned = [kind |-> "Node", idx |-> Len(calls)]

\* C2 witness: three unlabelled nodes were added to three different layers.
C2_Witness ==
    LET calls == CallsOf("add_node")
    IN  /\ last.op = "add_node"
        /\ Len(calls) = 3
        /\ \A i \in DOMAIN calls : calls[i].args.label = None
        /\ Cardinality({calls[i].args.layer : i \in DOMAIN calls}) = 3
        /\ nodes[returned.idx].label = "node2"

\* A str element of the nodes argument that is the label of no node.
HasUnresolvedLabel(nodes_arg, ns) ==
    \E i \in DOMAIN nodes_arg.items :
        /\ nodes_arg.items[i].kind = "str"
        /\ \A n \in DOMAIN ns : ns[n].label # nodes_arg.items[i].str

\* C3: add_path with a list holding a string that is the label of no node
\* added so far raises, and adds no path.
C3_UnresolvedLabelRaises ==
    [][(/\ last'.op = "add_path"
        /\ args'.nodes.type = "list"
        /\ HasUnresolvedLabel(args'.nodes, nodes))
       => (last'.exc # "" /\ paths' = paths /\ layers' = layers)]_vars

\* The earliest node carrying the label lbl.
IsEarliest(n, lbl) ==
    /\ nodes[n].label = lbl
    /\ \A m \in 1..(n - 1) : nodes[m].label # lbl

\* C4: plot_matplotlib draws each end of a path at the node that was added
\* earliest under the referenced label, also when later nodes share the label;
\* and when every label of every path is carried by some node, every path is
\* drawn.
C4_EarliestNode ==
    last.op = "plot_matplotlib" =>
        /\ Len(ax.lines) <= Len(paths)
        /\ \A p \in DOMAIN ax.lines :
               /\ Len(ax.lines[p].x) = Len(paths[p].nodes)
               /\ Len(ax.lines[p].y) = Len(paths[p].nodes)
               /\ \A i \in DOMAIN paths[p].nodes :
                      \E n \in DOMAIN nodes :
                          /\ IsEarliest(n, paths[p].nodes[i].str)
                          /\ ax.lines[p].x[i] = nodes[n].x
                          /\ ax.lines[p].y[i] = nodes[n].y
        /\ (\A p \in DOMAIN paths : \A i \in DOMAIN paths[p].nodes :
                /\ paths[p].nodes[i].kind = "str"
                /\ \E n \in DOMAIN nodes : nodes[n].label = paths[p].nodes[i].str)
           => Len(ax.lines) = Len(paths)

\* C4 witness: a node A, then a path over the label A, then a second node A at
\* another position; the path was drawn.
C4_Witness ==
    /\ last.op = "plot_matplotlib"
    /\ Len(history) = 3
    /\ history[1].op = "add_node" /\ history[2].op = "add_path"
    /\ history[3].op = "add_node"
    /\ nodes[1].label = nodes[2].label
    /\ nodes[1].x # nodes[2].x
    /\ Len(ax.lines) = 1
    /\ Len(paths[1].nodes) = 2
    /\ \A i \in 1..2 : paths[1].nodes[i].str = nodes[1].label

\* C5: add_path with a list holding an element that is neither a Node nor a
\* string raises, and appends no path to paths or to a layer bucket.
C5_InvalidElementRaises ==
    [][(/\ last'.op = "add_path"
        /\ args'.nodes.type = "list"
        /\ \E i \in DOMAIN args'.nodes.items :
               args'.nodes.items[i].kind \notin {"Node", "str"})
       => (last'.exc # "" /\ paths' = paths /\ layers' = layers)]_vars

\* C6: add_path with a nodes argument that is not a list raises, and leaves
\* nodes, paths, layers and the node counter as they were.
C6_NotAListRaises ==
    [][(last'.op = "add_path" /\ args'.nodes.type # "list")
       => (/\ last'.exc = "ValueError"
           /\ returned' = NoRef
           /\ nodes' = nodes
           /\ paths' = paths
           /\ layers' = layers
           /\ _node_counter' = _node_counter)]_vars

\* C6 witness: add_path was called with a tuple of labels on a figure that
\* holds a node and a path, and raised.
C6_Witness ==
    /\ last = [op |-> "add_path", exc |-> "ValueError"]
    /\ args.nodes = TupleOf(<<StrElem("A")>>)
    /\ nodes # <<>>
    /\ paths # <<>>

\* C7: the ends of a path are fixed when add_path returns: every point
\* plot_matplotlib draws a path through is a node that had been added before
\* the add_path call that created the path.
C7_BoundAtCreation ==
    last.op = "plot_matplotlib" =>
        \A p \in DOMAIN ax.lines : \A i \in DOMAIN ax.lines[p].x :
            \E n \in DOMAIN nodes :
                /\ CreatedAt("add_node", n) < CreatedAt("add_path", p)
                /\ ax.lines[p].x[i] = nodes[n].x
                /\ ax.lines[p].y[i] = nodes[n].y

\* C8: generate_tikz changes none of nodes, paths, layers, the node counter
\* or the figure's caption, description, label and grid, and a second call
\* right after a first returns the same string.
C8_GenerateIsPure ==
    [][/\ last'.op = "generate_tikz" =>
              /\ nodes' = nodes
              /\ paths' = paths
              /\ layers' = layers
              /\ _node_counter' = _node_counter
              /\ <<_caption, _description, _label, _grid>>'
                     = <<_caption, _description, _label, _grid>>
       /\ (last.op = "generate_tikz" /\ last'.op = "generate_tikz") =>
              tikz_script' = tikz_script]_vars

\* C8 witness: generate_tikz returned the script of a figure that holds nodes
\* and a path in more than one layer.
C8_Witness ==
    /\ last.op = "generate_tikz"
    /\ nodes # <<>>
    /\ paths # <<>>
    /\ Len(layers) > 1
    /\ Contains("\\node", tikz_script)
    /\ Contains("\\draw", tikz_script)

\* An optional string that is given and not empty.
IsSet(v) == v # None /\ v # Some("")

\* C9: generate_tikz wraps the tikzpicture in a figure environment exactly when
\* one of caption, description and label is set (given and not empty); the
\* figure holds a \caption clause exactly when caption is set and a \label
\* clause exactly when label is set; with none set the output is the
\* tikzpicture alone.
C9_FigureEnvelope ==
    last.op = "generate_tikz" =>
        LET wrapped == StartsWith("\\begin{figure}\n\\begin{tikzpicture}\n", tikz_script)
            anySet == IsSet(_caption) \/ IsSet(_description) \/ IsSet(_label)
        IN  /\ wrapped <=> anySet
            /\ Contains("\\begin{figure}", tikz_script) <=> anySet
            /\ Contains("\\end{figure}", tikz_script) <=> anySet
            /\ wrapped => EndsWith("\\end{figure}", tikz_script)
            /\ Contains("\\caption{", tikz_script) <=> IsSet(_caption)
            /\ IsSet(_caption) =>
                   Contains("\\end{tikzpicture}\n    \\caption{" \o _caption[1] \o "}\n",
                            tikz_script)
            /\ Contains("\\label{", tikz_script) <=> IsSet(_label)
            /\ IsSet(_label) =>
                   EndsWith("    \\label{" \o _label[1] \o "}\n\\end{figure}",
                            tikz_script)
            /\ ~anySet =>
                   /\ StartsWith("\\begin{tikzpicture}\n", tikz_script)
                   /\ EndsWith("\\end{tikzpicture}", tikz_script)

\* C9 witness: a figure with a description and neither caption nor label was
\* rendered, inside a figure environment.
C9_Witness ==
    /\ last.op = "generate_tikz"
    /\ IsSet(_description) /\ ~IsSet(_caption) /\ ~IsSet(_label)
    /\ nodes # <<>>
    /\ StartsWith("\\begin{figure}\n", tikz_script)

\* The lines of s, without their line ends.
SplitLines(s) ==
    LET ends == SelectSeq([i \in 1..(Len(s) + 1) |-> i],
                          LAMBDA i : i = Len(s) + 1 \/ SubSeq(s, i, i) = "\n")
    IN  [k \in DOMAIN ends |->
             SubSeq(s, IF k = 1 THEN 1 ELSE ends[k - 1] + 1, ends[k] - 1)]

\* C10: a path with cycle=True is emitted as one draw statement that visits
\* its nodes in the order given and then closes with " -- cycle" after the last
\* node; with cycle=False the statement ends after the last node.  (All paths
\* of SpecCycle are in one layer, so the draw statements are in call order.)
C10_CycleCloses ==
    last.op = "generate_tikz" =>
        LET calls == CallsOf("add_path")
            draws == SelectSeq(SplitLines(tikz_script),
                               LAMBDA l : StartsWith("    \\draw", l))
        IN  /\ Len(draws) = Len(calls)
            /\ \A p \in DOMAIN calls :
                   LET given == [i \in DOMAIN calls[p].args.nodes.items |->
                                     "(" \o calls[p].args.nodes.items[i].str \o ".center)"]
                       visit == Join(given, " -- ")
                   IN  IF calls[p].args.kwargs.cycle
                       THEN draws[p] = "    \\draw " \o visit \o " -- cycle;"
                       ELSE draws[p] = "    \\draw " \o visit \o ";"

\* C10 witness: the path over A, B, C with cycle=True was rendered.
C10_Witness ==
    /\ last.op = "generate_tikz"
    /\ Len(nodes) = 3
    /\ Len(paths) = 1
    /\ paths[1].cycle
    /\ [i \in DOMAIN paths[1].nodes |-> paths[1].nodes[i].str] = <<"A", "B", "C">>
    /\ Contains("    \\draw (A.center) -- (B.center) -- (C.center) -- cycle;\n",
                tikz_script)

\* The statements of the "% Layer key" block of a script: the lines after the
\* block's header, up to the empty line that starts the next block or the end
\* of the tikzpicture.
LayerBlock(script, key) ==
    LET lines == SplitLines(script)
        header == "    % Layer " \o ToString(key)
        at == CHOOSE h \in DOMAIN lines : lines[h] = header
        stop == CHOOSE e \in (at + 1)..Len(lines) :
                    /\ lines[e] = "" \/ StartsWith("\\end{tikzpicture}", lines[e])
                    /\ \A f \in (at + 1)..(e - 1) :
                           lines[f] # "" /\ ~StartsWith("\\end{tikzpicture}", lines[f])
    IN  SubSeq(lines, at + 1, stop - 1)

\* The statement (without its line end) of the entity the k-th call of history
\* created.
StatementOf(k) ==
    LET n == Cardinality({j \in 1..k : history[j].op = history[k].op})
        stmt == IF history[k].op = "add_node" THEN Node_to_tikz(nodes[n])
                ELSE Path_to_tikz(paths[n])
    IN  SubSeq(stmt, 1, Len(stmt) - 1)

\* C11: within one layer, generate_tikz emits the items in the order they were
\* added: the statements of the layer's block are those of the entities the
\* add_node and add_path calls for that layer created, nodes and paths
\* interleaved in call order.
C11_InsertionOrderWithinLayer ==
    last.op = "generate_tikz" =>
        \A key \in {history[k].args.layer : k \in DOMAIN history} :
            LET made == SelectSeq([k \in DOMAIN history |-> k],
                                  LAMBDA k : history[k].args.layer = key)
            IN  LayerBlock(tikz_script, key) = [i \in DOMAIN made |-> StatementOf(made[i])]

\* C11 witness: a node, a path and a second node were added to layer 1, in that
\* order, and rendered in that order.
C11_Witness ==
    /\ last.op = "generate_tikz"
    /\ Len(history) = 3
    /\ \A k \in 1..3 : history[k].args.layer = 1
    /\ <<history[1].op, history[2].op, history[3].op>>
           = <<"add_node", "add_path", "add_node">>
    /\ nodes[1].label # nodes[2].label
    /\ Len(LayerBlock(tikz_script, 1)) = 3
    /\ StartsWith("    \\node", LayerBlock(tikz_script, 1)[1])
    /\ StartsWith("    \\draw", LayerBlock(tikz_script, 1)[2])
    /\ Contains("(" \o nodes[2].label \o ")", LayerBlock(tikz_script, 1)[3])

\* The run of pdflatex the last compile_pdf call got.
LastRun(runs) == runs[Len(runs)].run

\* C12: compile_pdf removes its temporary working directory on every exit
\* path: after the call has returned or raised (pdflatex exits non-zero, is
\* missing, leaves no figure.pdf, the move to a target in a missing directory
\* fails, or the call succeeds) no temporary directory exists any more.
C12_TempDirRemoved ==
    /\ \A d \in DOMAIN tempdirs : ~tempdirs[d].exists /\ tempdirs[d].files = {}
    /\ last.op = "compile_pdf" =>
           /\ Len(subprocess_runs) = 1
           /\ subprocess_runs[1].cwd = Len(tempdirs)

\* C12 witness: pdflatex exited zero and wrote figure.pdf, the move to a target
\* in a missing directory raised, and the temporary directory is gone.
C12_Witness ==
    /\ last = [op |-> "compile_pdf", exc |-> "FileNotFoundError"]
    /\ args.filename = "missing/output.pdf"
    /\ LastRun(subprocess_runs) = PdflatexRun(TRUE, 0, "", TRUE)
    /\ ~tempdirs[Len(tempdirs)].exists
    /\ disk = {}

\* C13: compile_pdf reports a failure to its caller by raising, not by
\* returning normally, when pdflatex exits non-zero, when pdflatex is not
\* found, and when pdflatex exits zero without having written figure.pdf.
C13_FailureIsRaised ==
    last.op = "compile_pdf" =>
        LET run == LastRun(subprocess_runs)
        IN  (~run.found \/ run.returncode # 0 \/ ~run.pdf) => last.exc # ""

\* The last call was a compile_pdf whose pdflatex exited zero and wrote
\* figure.pdf (read in the state after the call).
CompiledArtifact(l, runs) ==
    /\ l.op = "compile_pdf"
    /\ LastRun(runs).found
    /\ LastRun(runs).returncode = 0
    /\ LastRun(runs).pdf

\* What C14 says of a call: pdflatex was spawned exactly once, the files
\* outside the temporary directory differ from those before the call in exactly
\* one new or overwritten file, at the requested filename, and no figure.pdf is
\* left in the temporary directory.
OneFileAtFilename(before, after, filename, runs, dirs) ==
    /\ Len(runs) = 1
    /\ after \ before = {[path |-> filename, from |-> Len(dirs)]}
    /\ Cardinality({f \in after : f.path = filename}) = 1
    /\ {f \in after : f.path # filename} = {f \in before : f.path # filename}
    /\ "figure.pdf" \notin dirs[Len(dirs)].files

\* C14 as stated: whenever pdflatex exits zero and has written figure.pdf,
\* compile_pdf spawns it exactly once and ends with exactly one new or
\* overwritten file at the requested filename and no artifact left in the
\* temporary directory.
C14_ArtifactAtFilename ==
    [][CompiledArtifact(last', subprocess_runs')
       => OneFileAtFilename(disk, disk', args'.filename, subprocess_runs', tempdirs')]_vars

\* C14 amended: the same, for a filename whose directory exists.
C14_ArtifactAtFilenameInDirectory ==
    [][(/\ CompiledArtifact(last', subprocess_runs')
        /\ Dirname(args'.filename) \in Directories)
       => (/\ last'.exc = ""
           /\ OneFileAtFilename(disk, disk', args'.filename, subprocess_runs',
                                 tempdirs'))]_vars

\* C14 witness: a second compile_pdf to output.pdf succeeded and replaced the
\* file the first one had put there.
C14_Witness ==
    /\ CompiledArtifact(last, subprocess_runs)
    /\ last.exc = ""
    /\ args.filename = "output.pdf"
    /\ Len(tempdirs) = 2
    /\ disk = {[path |-> "output.pdf", from |-> 2]}
    /\ stdout = <<SuccessMessage("output.pdf")>>

\* The Node or Path a bucket item refers to.
EntityOf(item) ==
    IF item.kind = "Node" THEN nodes[item.idx] ELSE paths[item.idx]

\* C15: every node and path of the figure is tagged with its layer: an entity
\* stored in the bucket layers[k] has k as its own layer attribute, after any
\* add_node and add_path calls with any layer arguments.
C15_EntityTaggedWithLayer ==
    \A b \in DOMAIN layers : \A j \in DOMAIN layers[b].items :
        EntityOf(layers[b].items[j]).layer = layers[b].key

\* C16: LinePlot.add_node adds the node and returns it: after any earlier
\* add_line and add_node calls, and for any label and layer, the call completes
\* without error, the node it returns is the last element of nodes, and the
\* node counter has grown by one.
C16_LinePlotAddNodeSucceeds ==
    [][last'.op = "LinePlot.add_node" =>
           /\ last'.exc = ""
           /\ Len(line_plot'.nodes) = Len(line_plot.nodes) + 1
           /\ returned' = [kind |-> "Node", idx |-> Len(line_plot'.nodes)]
           /\ line_plot'._node_counter = line_plot._node_counter + 1]_vars

\* (row, col) is a cell of the nrows x ncols grid.
InGrid(row, col) ==
    /\ 0 <= row /\ row < canvas._nrows
    /\ 0 <= col /\ col < canvas._ncols

\* The value most recently stored at (row, col) by add_subplot or by
\* canvas[row, col] = value; None when nothing was stored there.
LastStored(row, col) ==
    LET at == {k \in DOMAIN history :
                   history[k].args.row = row /\ history[k].args.col = col}
    IN  IF at = {} THEN NoRef ELSE history[Max(at)].args.value

\* C17: subscripting the canvas by (row, col), to read or to store, raises
\* IndexError exactly when (row, col) lies outside the nrows x ncols grid, also
\* for negative indices and after nrows or ncols were set; and inside the grid
\* canvas[row, col] returns the value most recently stored at that cell.
C17_SubscriptInGrid ==
    /\ last.op \in {"Canvas.__getitem__", "Canvas.__setitem__"} =>
           (last.exc = "IndexError" <=> ~InGrid(args.row, args.col))
    /\ (last.op = "Canvas.__getitem__" /\ InGrid(args.row, args.col)) =>
           /\ last.exc = ""
           /\ returned = LastStored(args.row, args.col)

\* C18: the auto-label counter advances only in the add_node calls that omit
\* the label: after any mix of labelled and unlabelled calls the counter is the
\* number of unlabelled calls, and the k-th unlabelled call (from 1) created
\* the node labelled node{k-1}.
C18_CounterCountsUnlabelled ==
    LET calls == CallsOf("add_node")
        unlabelled == SelectSeq([i \in DOMAIN calls |-> i],
                                LAMBDA i : calls[i].args.label = None)
    IN  /\ _node_counter = Len(unlabelled)
        /\ \A k \in DOMAIN unlabelled :
               nodes[unlabelled[k]].label = "node" \o ToString(k - 1)

\* The places (bucket, position) of layers that hold the entity ref.
PlacesOf(ref) ==
    {<<b, j>> \in (DOMAIN layers) \X (1..ItemCount) :
         j \in DOMAIN layers[b].items /\ layers[b].items[j] = ref}

RECURSIVE SumLen(_)
SumLen(buckets) ==
    IF buckets = <<>> THEN 0 ELSE Len(buckets[1].items) + SumLen(Tail(buckets))

\* C19: after any add_node and add_path calls the layer buckets partition the
\* entities: every node and every path is in exactly one bucket, exactly once,
\* the bucket keyed by the layer argument of the call that created it; no
\* bucket is empty, no two buckets share a key, and the sizes of the buckets
\* add up to len(nodes) + len(paths).
C19_BucketsPartitionEntities ==
    /\ \A n \in DOMAIN nodes :
           LET places == PlacesOf([kind |-> "Node", idx |-> n])
           IN  /\ Cardinality(places) = 1
               /\ \A pl \in places :
                      layers[pl[1]].key = history[CreatedAt("add_node", n)].args.layer
    /\ \A p \in DOMAIN paths :
           LET places == PlacesOf([kind |-> "Path", idx |-> p])
           IN  /\ Cardinality(places) = 1
               /\ \A pl \in places :
                      layers[pl[1]].key = history[CreatedAt("add_path", p)].args.layer
    /\ \A b \in DOMAIN layers : layers[b].items # <<>>
    /\ \A b, c \in DOMAIN layers : layers[b].key = layers[c].key => b = c
    /\ SumLen(layers) = Len(nodes) + Len(paths)

\* C19 witness: a node and a path were added to layer 2 and a node to layer 0;
\* the bucket of layer 2 holds two entities and that of layer 0 one.
C19_Witness ==
    /\ Len(nodes) = 2 /\ Len(paths) = 1
    /\ Len(layers) = 2
    /\ layers[1].key = 2 /\ layers[2].key = 0
    /\ layers[1].items = <<[kind |-> "Node", idx |-> 1], [kind |-> "Path", idx |-> 1]>>
    /\ layers[2].items = <<[kind |-> "Node", idx |-> 2]>>

\* C20: the options clause of a path's draw statement is the bracketed,
\* comma-joined list of the path actions in the order given, followed by one
\* key=value entry per style option with the underscores of the key written as
\* spaces; it has no empty entry and no trailing separator, whichever of the
\* path actions and the options are empty, and is left out when both are.
\* (All paths of SpecOptions are in one layer, so the draw statements are in
\* call order.)
C20_OptionsClause ==
    last.op = "generate_tikz" =>
        LET calls == CallsOf("add_path")
            draws == SelectSeq(SplitLines(tikz_script),
                               LAMBDA l : StartsWith("    \\draw", l))
        IN  /\ Len(draws) = Len(calls)
            /\ \A p \in DOMAIN calls :
                   LET kwargs == calls[p].args.kwargs
                       entries == kwargs.path_actions
                                  \o [i \in DOMAIN kwargs.options |->
                                          ReplaceUnderscore(kwargs.options[i][1])
                                          \o "=" \o kwargs.options[i][2]]
                       clause == IF entries = <<>> THEN ""
                                 ELSE "[" \o Join(entries, ", ") \o "]"
                   IN  draws[p] = "    \\draw" \o clause \o " (A.center);"

\* What the cell (row, col) of the grid holds in the canvas cv: the element of
\* the subplot matrix, None where the matrix has no such element.
CellOf(cv, row, col) ==
    IF row < Len(cv._subplot_matrix) /\ col < Len(cv._subplot_matrix[row + 1])
    THEN cv._subplot_matrix[row + 1][col + 1]
    ELSE NoRef

\* The free cells of the nrows x ncols grid of cv.
FreeCells(cv) ==
    {cell \in (0..(cv._nrows - 1)) \X (0..(cv._ncols - 1)) :
         CellOf(cv, cell[1], cell[2]) = NoRef}

\* The first of a non-empty set of cells in row-major order.
FirstRowMajor(cells) ==
    CHOOSE a \in cells :
        \A b \in cells : a[1] < b[1] \/ (a[1] = b[1] /\ a[2] <= b[2])

\* C21: add_subplot called without row and col on a grid with a free cell
\* stores the new subplot in the first free cell in row-major order and changes
\* no other cell; when every cell of the grid is occupied it fails with an
\* assertion error and leaves the subplot matrix and the subplots registry as
\* they were.
C21_FirstFreeCell ==
    [][(/\ last'.op = "Canvas.add_subplot"
        /\ args'.row = None
        /\ args'.col = None)
       => IF FreeCells(canvas) # {}
          THEN LET first == FirstRowMajor(FreeCells(canvas))
               IN  /\ last'.exc = ""
                   /\ returned'.kind = "LinePlot"
                   /\ CellOf(canvas', first[1], first[2]) = returned'
                   /\ \A cell \in (0..Len(canvas._subplot_matrix)) \X (0..2) :
                          cell # first =>
                              CellOf(canvas', cell[1], cell[2])
                              = CellOf(canvas, cell[1], cell[2])
          ELSE /\ last'.exc = "AssertionError"
               /\ canvas'._subplot_matrix = canvas._subplot_matrix
               /\ canvas'.subplots = canvas.subplots]_vars

\* The occupied cells of the subplot matrix of cv.
OccupiedCells(cv) ==
    {cell \in (0..(Len(cv._subplot_matrix) - 1)) \X (0..2) :
         CellOf(cv, cell[1], cell[2]) # NoRef}

\* C22: after any add_subplot calls (with or without row, col and label) and
\* canvas[row, col] = value assignments, the subplots registry holds exactly
\* the non-empty cells of the subplot matrix: one entry per occupied cell,
\* keyed by the cell's (row, col), whose value is the object in the cell.
C22_RegistryIsOccupiedCells ==
    /\ \A i \in DOMAIN canvas.subplots :
           LET entry == canvas.subplots[i]
           IN  /\ entry.key.kind = "cell"
               /\ <<entry.key.row, entry.key.col>> \in OccupiedCells(canvas)
               /\ 0 <= entry.key.row /\ 0 <= entry.key.col
                      => CellOf(canvas, entry.key.row, entry.key.col) = entry.value
    /\ \A cell \in OccupiedCells(canvas) :
           Cardinality({i \in DOMAIN canvas.subplots :
                            canvas.subplots[i].key = CellKey(cell[1], cell[2])}) = 1
    /\ Len(canvas.subplots) = Cardinality(OccupiedCells(canvas))

\* The properties of the claim, by the name of the setter call, and what
\* reading each returns.
PropertyNames ==
    {"Canvas.dpi", "Canvas.nrows", "Canvas.ncols", "Canvas.caption",
     "Canvas.description", "Canvas.label", "Canvas.figsize"}

ReadProperty(cv, name) ==
    CASE name = "Canvas.dpi" -> Canvas_dpi(cv)
      [] name = "Canvas.nrows" -> Canvas_nrows(cv)
      [] name = "Canvas.ncols" -> Canvas_ncols(cv)
      [] name = "Canvas.caption" -> Canvas_caption(cv)
      [] name = "Canvas.description" -> Canvas_description(cv)
      [] name = "Canvas.label" -> Canvas_label(cv)
      [] name = "Canvas.figsize" -> Canvas_figsize(cv)

\* C23: each Canvas property round-trips and is independent of the others:
\* right after construction dpi reads the dpi the canvas was constructed with,
\* and an assignment to dpi, nrows, ncols, caption, description, label or
\* figsize makes that property read the assigned value and leaves what every
\* other property reads as it was.
C23_PropertiesRoundTrip ==
    [][/\ last.op = "__init__" => Canvas_dpi(canvas) = canvas._dpi
       /\ last'.op \in PropertyNames =>
              /\ ReadProperty(canvas', last'.op) = args'.value
              /\ \A other \in PropertyNames \ {last'.op} :
                     ReadProperty(canvas', other) = ReadProperty(canvas, other)]_vars

====
